---- MODULE Spec2Model ----
(***************************************************************************)
(* The logout service of andreglaser/logoutsendflow: POST /logout drives   *)
(* a headless browser to a URL and clicks a logout control.  The           *)
(* repository holds three revisions of server.js:                          *)
(*   "p0"  src/unnamed/part_000           (no auth, no scheme check)       *)
(*   "s1"  src/server.js, lines 1-180     (checkAuth, coerceUrl)           *)
(*   "s2"  src/server.js, lines 182-476   (idempotency cache, API first)   *)
(* A behaviour runs one revision as one Node process.  A handler runs      *)
(* without interruption up to its next await (the single-threaded event    *)
(* loop), so each action below is one such run.                            *)
(***************************************************************************)
EXTENDS Integers, Sequences, FiniteSets, TLC

\* ---------------------------------------------------------------- bounds
\* Requests that can be in flight at once.
MaxReq == 2
\* The clock runs from one to MaxTicks half-windows.
MaxTicks == 4

\* ------------------------------------------------------------- revisions
Revs == {"p0", "s1", "s2"}

\* ------------------------------------------------------ strings and values
\* A string is a sequence of tokens; a JavaScript value is [type, elem, val]:
\* val is the string's tokens (for an array, those of its first element,
\* whose type is elem).
Undefined == [type |-> "undefined", elem |-> "none", val |-> <<>>]
Number42 == [type |-> "number", elem |-> "none", val |-> <<>>]
Str(s) == [type |-> "string", elem |-> "none", val |-> s]
ArrayOf(x) == [type |-> "array", elem |-> x.type, val |-> x.val]

\* null, as coerceUrl and extractAccessId return it
Null == <<>>

\* String.prototype.toLowerCase on one token
LowerTok(t) ==
  CASE t = "HTTP://" -> "http://"
    [] t = "HTTPS://" -> "https://"
    [] t = "SendFlow.pro/logout/" -> "sendflow.pro/logout/"
    [] t = "Deslogar" -> "deslogar"
    [] t = "Sair" -> "sair"
    [] OTHER -> t

IsSpace(t) == t = " "

\* String.prototype.trim: whitespace off both ends
RECURSIVE TrimLeft(_)
TrimLeft(s) == IF s # <<>> /\ IsSpace(Head(s)) THEN TrimLeft(Tail(s)) ELSE s

RECURSIVE TrimRight(_)
TrimRight(s) ==
  IF s # <<>> /\ IsSpace(s[Len(s)]) THEN TrimRight(SubSeq(s, 1, Len(s) - 1)) ELSE s

Trim(s) == TrimRight(TrimLeft(s))

\* /^https?:\/\//i.test(u)
TestHttpScheme(u) == u # <<>> /\ LowerTok(u[1]) \in {"http://", "https://"}

\* ----------------------------------------------------------------- config
\* process.env.AUTH_TOKEN: unset (the empty string is as falsy) or a token
NoToken == ""
SecretToken == "s3cret"

\* IDEMP_TTL_MS = 10 * 60 * 1000
IDEMP_TTL_MS == 10 * 60 * 1000

\* The clock advances by half a window.
TickMs == IDEMP_TTL_MS \div 2

\* ------------------------------------------------------------------ auth
\* header.startsWith("Bearer ") ? header.slice(7) : header
StripBearer(header) ==
  IF header # <<>> /\ Head(header) = "Bearer " THEN Tail(header) ELSE header

checkAuthStrict(expected, header) ==
  LET got == StripBearer(header)
  IN  got # <<>> /\ got = <<expected>>

\* checkAuth: TRUE when the request may pass.  req.get("Authorization") || ""
\* is the empty sequence for a missing header.
checkAuth(expected, header) ==
  IF expected = NoToken THEN TRUE
  ELSE LET got == StripBearer(header)
       IN  got # <<>> /\ got = <<expected>>

\* ------------------------------------------------------------- validator
\* a ?? b
Coalesce(a, b) == IF a.type = "undefined" THEN b ELSE a

\* req.body?.url ?? req.body?.URL ?? req.query?.url, an array giving its first
\* element
CandidateUrl(req) ==
  LET raw == Coalesce(Coalesce(req.url, req.URL), req.qurl)
  IN  IF raw.type = "array" THEN [type |-> raw.elem, elem |-> "none", val |-> raw.val]
      ELSE raw

\* coerceUrl: the trimmed URL, or null
coerceUrl(req) ==
  LET raw == CandidateUrl(req)
  IN  IF raw.type # "string" THEN Null
      ELSE LET u == Trim(raw.val)
           IN  IF ~TestHttpScheme(u) THEN Null ELSE u

\* part_000: const { url } = req.body; if (!url || typeof url !== "string")
\* rejects; the URL is used as given.
acceptUrlP0(req) ==
  IF req.url.type # "string" \/ req.url.val = <<>> THEN Null ELSE req.url.val

\* ------------------------------------------------------------- fast path
\* a character run without "/", "?" or "#"
IsIdTok(t) == t \in {"abc123", "example.com"}

RECURSIVE IdRun(_)
IdRun(s) == IF s # <<>> /\ IsIdTok(Head(s)) THEN <<Head(s)>> \o IdRun(Tail(s)) ELSE <<>>

RECURSIVE MatchLogoutId(_)
MatchLogoutId(s) ==
  IF s = <<>> THEN Null
  ELSE IF LowerTok(Head(s)) = "sendflow.pro/logout/" /\ IdRun(Tail(s)) # <<>>
       THEN IdRun(Tail(s))
       ELSE MatchLogoutId(Tail(s))

\* extractAccessId: url.match(/sendflow\.pro\/logout\/([^/?#]+)/i), m[1] or null
extractAccessId(url) == MatchLogoutId(url)

\* status >= 200 && status < 400
ApiSuccess(status) == status >= 200 /\ status < 400

\* ----------------------------------------------------- idempotency cache
\* seen is a Map url -> timestamp: a function m on the URLs it holds.
Evict(m, now) ==
  [k \in {j \in DOMAIN m : ~(now - m[j] > IDEMP_TTL_MS)} |-> m[k]]

MapSet(m, u, now) == [k \in DOMAIN m \cup {u} |-> IF k = u THEN now ELSE m[k]]

seenRecentlyNoRecord(u, now, m) ==
  LET kept == Evict(m, now)
  IN  [seen |-> kept,
       recent |-> u \in DOMAIN kept /\ kept[u] # 0 /\ now - kept[u] < IDEMP_TTL_MS]

seenRecentlyInclusive(u, now, m) ==
  LET kept == Evict(m, now)
  IN  [seen |-> MapSet(kept, u, now),
       recent |-> u \in DOMAIN kept /\ kept[u] # 0 /\ now - kept[u] <= IDEMP_TTL_MS]

seenRecentlyNoEvict(u, now, m) ==
  [seen |-> MapSet(m, u, now),
   recent |-> u \in DOMAIN m /\ m[u] # 0 /\ now - m[u] < IDEMP_TTL_MS]

\* seenRecently: evict, read the URL's last timestamp, record now, and answer
\* last && (now - last < IDEMP_TTL_MS)
seenRecently(u, now, m) ==
  LET kept == Evict(m, now)
      last == IF u \in DOMAIN kept THEN kept[u] ELSE 0
  IN  [seen |-> MapSet(kept, u, now),
       recent |-> u \in DOMAIN kept /\ last # 0 /\ now - last < IDEMP_TTL_MS]

\* ------------------------------------------------------------- responses
\* A JSON body; "null" and "" stand for null and an absent field.
EmptyBody ==
  [ok |-> FALSE, error |-> "", skipped |-> FALSE, via |-> "", apiStatus |-> 0,
   clicked |-> FALSE, clickHow |-> "", clickValue |-> ""]

ErrorBody(msg) == [EmptyBody EXCEPT !.error = msg]

SkippedBody == [EmptyBody EXCEPT !.ok = TRUE, !.skipped = TRUE]

ApiBody(status) == [EmptyBody EXCEPT !.ok = TRUE, !.via = "api", !.apiStatus = status]

\* What one run of a handler did: the calls it made in order (events), the
\* response it sent (status 0: none yet), the cache it left, and where the
\* request waits next.
Step(events, status, body, seenAfter, next, url) ==
  [events |-> events, status |-> status, body |-> body, seen |-> seenAfter,
   next |-> next, url |-> url]

\* ------------------------------------------- POST /logout, up to its first await
\* part_000, lines 65-81
postP0(expected, req, now, seenNow) ==
  LET url == acceptUrlP0(req)
  IN  IF url = Null
      THEN Step(<<"validate", "res.json">>, 400, ErrorBody("Body deve conter { url }"),
                seenNow, "done", Null)
      ELSE Step(<<"validate", "chromium.launch">>, 0, EmptyBody, seenNow, "ui", url)

\* server.js, lines 98-119
postS1(expected, req, now, seenNow) ==
  IF ~checkAuth(expected, req.hdr)
  THEN Step(<<"checkAuth", "res.json">>, 401, ErrorBody("Unauthorized"), seenNow, "done", Null)
  ELSE LET url == coerceUrl(req)
       IN  IF url = Null
           THEN Step(<<"checkAuth", "coerceUrl", "res.json">>, 400,
                     ErrorBody("Body deve conter { url: string http/https }"),
                     seenNow, "done", Null)
           ELSE Step(<<"checkAuth", "coerceUrl", "chromium.launch">>, 0, EmptyBody,
                     seenNow, "ui", url)

postS2UrlFirst(expected, req, now, seenNow) ==
  LET url == coerceUrl(req)
  IN  IF url = Null
      THEN Step(<<"coerceUrl", "res.json">>, 400,
                ErrorBody("Body deve conter { url: string http/https }"), seenNow, "done", Null)
      ELSE LET sr == seenRecently(url, now, seenNow)
           IN  IF ~checkAuth(expected, req.hdr)
               THEN Step(<<"coerceUrl", "seenRecently", "checkAuth", "res.json">>, 401,
                         ErrorBody("Unauthorized"), sr.seen, "done", Null)
               ELSE IF sr.recent
               THEN Step(<<"coerceUrl", "seenRecently", "checkAuth", "res.json">>, 200,
                         SkippedBody, sr.seen, "done", url)
               ELSE IF extractAccessId(url) # Null
               THEN Step(<<"coerceUrl", "seenRecently", "checkAuth", "extractAccessId", "fetch">>,
                         0, EmptyBody, sr.seen, "fetch", url)
               ELSE Step(<<"coerceUrl", "seenRecently", "checkAuth", "extractAccessId",
                           "chromium.launch">>, 0, EmptyBody, sr.seen, "ui", url)

\* server.js, lines 303-334 (with an identifier) or 303-369 (without)
postS2(expected, req, now, seenNow) ==
  IF ~checkAuth(expected, req.hdr)
  THEN Step(<<"checkAuth", "res.json">>, 401, ErrorBody("Unauthorized"), seenNow, "done", Null)
  ELSE LET url == coerceUrl(req)
       IN  IF url = Null
           THEN Step(<<"checkAuth", "coerceUrl", "res.json">>, 400,
                     ErrorBody("Body deve conter { url: string http/https }"),
                     seenNow, "done", Null)
           ELSE LET sr == seenRecently(url, now, seenNow)
                IN  IF sr.recent
                    THEN Step(<<"checkAuth", "coerceUrl", "seenRecently", "res.json">>, 200,
                              SkippedBody, sr.seen, "done", url)
                    ELSE IF extractAccessId(url) # Null
                    THEN Step(<<"checkAuth", "coerceUrl", "seenRecently", "extractAccessId",
                                "fetch">>, 0, EmptyBody, sr.seen, "fetch", url)
                    ELSE Step(<<"checkAuth", "coerceUrl", "seenRecently", "extractAccessId",
                                "chromium.launch">>, 0, EmptyBody, sr.seen, "ui", url)

post(revision, expected, req, now, seenNow) ==
  CASE revision = "p0" -> postP0(expected, req, now, seenNow)
    [] revision = "s1" -> postS1(expected, req, now, seenNow)
    [] revision = "s2" -> postS2(expected, req, now, seenNow)

\* ---------------------------------------- the fast path, after await fetch
\* The backend call's outcome: it throws (status 0) or answers with a status;
\* 200 and 399 are the ends of the range line 340 accepts.
ApiOutcomes == {0, 200, 399, 400, 500}

fetchDoneShortCircuitAll(url, outcome, seenNow) ==
  IF outcome # 0
  THEN Step(<<"fetch.resolved", "res.json">>, 200, ApiBody(outcome), seenNow, "done", url)
  ELSE Step(<<"fetch.rejected", "chromium.launch">>, 0, EmptyBody, seenNow, "ui", url)

fetchDoneFailsRequest(url, outcome, seenNow) ==
  IF outcome = 0
  THEN Step(<<"fetch.rejected", "res.json">>, 500, ErrorBody("fetch"), seenNow, "done", url)
  ELSE IF ApiSuccess(outcome)
  THEN Step(<<"fetch.resolved", "res.json">>, 200, ApiBody(outcome), seenNow, "done", url)
  ELSE Step(<<"fetch.resolved", "res.json">>, outcome, ErrorBody("api"), seenNow, "done", url)

\* server.js, lines 331-369
fetchDone(url, outcome, seenNow) ==
  IF outcome = 0
  THEN Step(<<"fetch.rejected", "chromium.launch">>, 0, EmptyBody, seenNow, "ui", url)
  ELSE IF ApiSuccess(outcome)
  THEN Step(<<"fetch.resolved", "res.json">>, 200, ApiBody(outcome), seenNow, "done", url)
  ELSE Step(<<"fetch.resolved", "chromium.launch">>, 0, EmptyBody, seenNow, "ui", url)

\* ----------------------------------------------------- the button clicker
\* A regular expression /source/flags
RegExp(source, flags) == [source |-> source, flags |-> flags]

\* new RegExp(buttonText, "i") throws a SyntaxError on a malformed pattern
ValidPattern(source) == source # "("

\* rx.toString()
RxToString(rx) == "/" \o rx.source \o "/" \o rx.flags

\* rx.toString().replace(/^\/|\/[gimuy]*$/g, "")
RxText(rx) == rx.source

\* part_000, lines 9-17
DEFAULT_BUTTON_CANDIDATES_P0 ==
  << RegExp("deslogar todas as sessões ativas", "i"),
     RegExp("deslogar todas as sessoes ativas", "i"),
     RegExp("deslogar", "i"),
     RegExp("sair de todos os dispositivos", "i"),
     RegExp("logout all sessions", "i"),
     RegExp("log out all sessions", "i"),
     RegExp("logout", "i") >>

\* server.js, lines 12-17 and 194
DEFAULT_BUTTON_CANDIDATES ==
  << RegExp("deslogar", "i"),
     RegExp("sair de todos os dispositivos", "i"),
     RegExp("logout all sessions", "i"),
     RegExp("logout", "i") >>

\* A locator is <<strategy, key>>: a case-insensitive pattern is keyed by its
\* lower-cased source.  A page answers each locator: page.count holds those
\* that match an element, page.click those whose click succeeds, page.bad
\* those whose count() rejects (a malformed selector).
SelectorLoc(sel) == <<"selector", sel>>
RoleLoc(rx) == <<"role+text", LowerTok(rx.source)>>
TextLoc(rx) == <<"text", LowerTok(rx.source)>>
XPathButtonLoc(rx) == <<"xpath:button", LowerTok(RxText(rx))>>
XPathLinkLoc(rx) == <<"xpath:a", LowerTok(RxText(rx))>>
FirstVisibleButtonLoc == <<"button:visible", "">>

\* One attempt of the clicker: the locator, what it reports on success, and
\* whether a rejected count() and a failed click are caught.
Attempt(loc, how, value, countCaught, clickCaught) ==
  [loc |-> loc, how |-> how, value |-> value, countCaught |-> countCaught,
   clickCaught |-> clickCaught]

SelectorAttempt(sel, countCaught) ==
  IF sel = "" THEN <<>>
  ELSE << Attempt(SelectorLoc(sel), "selector", sel, countCaught, FALSE) >>

RoleAttempts(candidates) ==
  [i \in 1..Len(candidates) |->
     Attempt(RoleLoc(candidates[i]), "role+text", RxToString(candidates[i]), TRUE, TRUE)]

TextAttempts(candidates) ==
  [i \in 1..Len(candidates) |->
     Attempt(TextLoc(candidates[i]), "text", RxToString(candidates[i]), TRUE, TRUE)]

\* per candidate the button query, then the link query
XPathAttempts(candidates) ==
  [i \in 1..(2 * Len(candidates)) |->
     LET rx == candidates[(i + 1) \div 2]
     IN  IF i % 2 = 1
         THEN Attempt(XPathButtonLoc(rx), "xpath", RxText(rx), TRUE, TRUE)
         ELSE Attempt(XPathLinkLoc(rx), "xpath", RxText(rx), TRUE, TRUE)]

FirstVisibleAttempt ==
  << Attempt(FirstVisibleButtonLoc, "fallback:first-visible-button", "", TRUE, TRUE) >>

\* part_000, lines 19-59: selector, role+text, xpath
attemptsP0(candidates, sel) ==
  SelectorAttempt(sel, FALSE) \o RoleAttempts(candidates) \o XPathAttempts(candidates)

\* server.js, lines 41-92: selector, role+text, text, xpath
attemptsS1(candidates, sel) ==
  SelectorAttempt(sel, FALSE) \o RoleAttempts(candidates) \o TextAttempts(candidates)
    \o XPathAttempts(candidates)

attemptsS2RoleFirst(candidates, sel) ==
  RoleAttempts(candidates) \o SelectorAttempt(sel, TRUE) \o TextAttempts(candidates)
    \o FirstVisibleAttempt

\* server.js, lines 237-296: selector, role+text, text, first visible button
attemptsS2(candidates, sel) ==
  SelectorAttempt(sel, TRUE) \o RoleAttempts(candidates) \o TextAttempts(candidates)
    \o FirstVisibleAttempt

attempts(revision, candidates, sel) ==
  CASE revision = "p0" -> attemptsP0(candidates, sel)
    [] revision = "s1" -> attemptsS1(candidates, sel)
    [] revision = "s2" -> attemptsS2(candidates, sel)

\* What clickFirstMatch gives: its return value, or the error it throws
\* (threw), with the locators it probed and those it clicked on, in order.
ClickResult(clicked, how, value, threw, probed, tried) ==
  [clicked |-> clicked, how |-> how, value |-> value, threw |-> threw,
   probed |-> probed, tried |-> tried]

NoClick == ClickResult(FALSE, "", "", "", <<>>, <<>>)

RECURSIVE runAttempts(_, _, _, _)
runAttempts(page, todo, probed, tried) ==
  IF todo = <<>> THEN ClickResult(FALSE, "", "", "", probed, tried)
  ELSE LET a == Head(todo)
           p == Append(probed, a.loc)
       IN  IF a.loc \in page.bad
           THEN IF a.countCaught THEN runAttempts(page, Tail(todo), p, tried)
                ELSE ClickResult(FALSE, "", "", "locator.count", p, tried)
           ELSE IF a.loc \notin page.count THEN runAttempts(page, Tail(todo), p, tried)
           ELSE IF a.loc \in page.click
                THEN ClickResult(TRUE, a.how, a.value, "", p, Append(tried, a.loc))
           ELSE IF a.clickCaught
                THEN runAttempts(page, Tail(todo), p, Append(tried, a.loc))
           ELSE ClickResult(FALSE, "", "", "locator.click", p, Append(tried, a.loc))

clickFirstMatchThrowsOnNone(revision, page, candidates, explicitSelector) ==
  LET r == runAttempts(page, attempts(revision, candidates, explicitSelector), <<>>, <<>>)
  IN  IF r.clicked \/ r.threw # "" THEN r ELSE [r EXCEPT !.threw = "no button found"]

\* clickFirstMatch(page, candidates, explicitSelector)
clickFirstMatch(revision, page, candidates, explicitSelector) ==
  runAttempts(page, attempts(revision, candidates, explicitSelector), <<>>, <<>>)

\* --------------------------------------------------- browser automation
\* What the browser and the target page do during one request: the awaited
\* call that rejects (fail), the page that loads, the request's selector and
\* buttonText ("" when absent), whether the close calls reject, and whether
\* page.url() after the click is still under sendflow.pro/logout/.
Env(fail, page, selector, buttonText, ctxCloseThrows, browserCloseThrows, stays) ==
  [fail |-> fail, page |-> page, selector |-> selector, buttonText |-> buttonText,
   ctxCloseThrows |-> ctxCloseThrows, browserCloseThrows |-> browserCloseThrows,
   stays |-> stays]

\* The awaited calls up to the navigation, and the resource each acquires
\* part_000, lines 73-98
acquireStepsP0 == <<"chromium.launch", "browser.newContext", "ctx.newPage", "page.goto">>

\* server.js, lines 111-139 and 369-406
acquireSteps == <<"chromium.launch", "browser.newContext", "ctx.route", "ctx.newPage",
                  "page.goto">>

Acquires(call) ==
  CASE call = "chromium.launch" -> <<"browser">>
    [] call = "browser.newContext" -> <<"ctx">>
    [] call = "ctx.newPage" -> <<"page">>
    [] OTHER -> <<>>

RECURSIVE acquireNeverFails(_, _, _, _)
acquireNeverFails(steps, fail, events, held) ==
  IF steps = <<>> THEN [events |-> events, held |-> held, failed |-> ""]
  ELSE acquireNeverFails(Tail(steps), fail, Append(events, Head(steps)),
                         held \o Acquires(Head(steps)))

\* Runs the calls in order until one rejects: the calls made, the resources
\* held, and the call that rejected ("" when none did).
RECURSIVE acquire(_, _, _, _)
acquire(steps, fail, events, held) ==
  IF steps = <<>> THEN [events |-> events, held |-> held, failed |-> ""]
  ELSE IF Head(steps) = fail
       THEN [events |-> Append(events, Head(steps)), held |-> held, failed |-> fail]
       ELSE acquire(Tail(steps), fail, Append(events, Head(steps)),
                    held \o Acquires(Head(steps)))

Held(held, res) == \E i \in 1..Len(held) : held[i] = res

\* What the browser stage of one request did.
UiResult(events, status, body, held, click, ran) ==
  [events |-> events, status |-> status, body |-> body, held |-> held,
   click |-> click, ran |-> ran]

OrNull(v) == IF v = "" THEN "null" ELSE v

\* res.json({ ok: true, clicked, clickHow, clickValue, ... })
ClickBody(via, cr) ==
  [EmptyBody EXCEPT !.ok = TRUE, !.via = via, !.clicked = cr.clicked,
                    !.clickHow = OrNull(cr.how), !.clickValue = OrNull(cr.value)]

catchLegacyLeaks(events, held, msg, click, ran) ==
  UiResult(events \o <<"res.json">>, 500, ErrorBody(msg), held, click, ran)

\* part_000, lines 130-136, and server.js, lines 171-174:
\* if (browser) await browser.close().catch(() => {}); res.status(500)
catchLegacy(events, held, msg, click, ran) ==
  UiResult(events \o (IF Held(held, "browser") THEN <<"browser.close">> ELSE <<>>)
             \o <<"res.json">>,
           500, ErrorBody(msg), held, click, ran)

\* part_000, lines 100-103, and server.js, lines 142-144
candidatesLegacy(defaults, buttonText) ==
  IF buttonText # "" THEN <<RegExp(buttonText, "i")>> \o defaults ELSE defaults

\* part_000, lines 73-136, and server.js, lines 111-174, after the launch
\* was called
uiLegacy(revision, env) ==
  LET acq == acquire(IF revision = "p0" THEN acquireStepsP0 ELSE acquireSteps,
                     env.fail, <<>>, <<>>)
      defaults == IF revision = "p0" THEN DEFAULT_BUTTON_CANDIDATES_P0
                  ELSE DEFAULT_BUTTON_CANDIDATES
  IN  IF acq.failed # "" THEN catchLegacy(acq.events, acq.held, acq.failed, NoClick, FALSE)
      ELSE IF env.buttonText # "" /\ ~ValidPattern(env.buttonText)
      THEN catchLegacy(Append(acq.events, "new RegExp"), acq.held, "new RegExp",
                       NoClick, FALSE)
      ELSE LET cr == clickFirstMatch(revision, env.page,
                                     candidatesLegacy(defaults, env.buttonText),
                                     env.selector)
               e1 == Append(acq.events, "clickFirstMatch")
               e2 == e1 \o (IF cr.clicked THEN <<"postClickWait">> ELSE <<>>)
                        \o <<"page.title", "ctx.close">>
           IN  IF cr.threw # "" THEN catchLegacy(e1, acq.held, cr.threw, cr, TRUE)
               ELSE IF env.ctxCloseThrows THEN catchLegacy(e2, acq.held, "ctx.close", cr, TRUE)
               ELSE IF env.browserCloseThrows
               THEN catchLegacy(Append(e2, "browser.close"), acq.held, "browser.close",
                                cr, TRUE)
               ELSE UiResult(e2 \o <<"browser.close", "res.json">>, 200,
                             ClickBody("", cr), acq.held, cr, TRUE)

catchS2Leaks(events, held, msg, click, ran) ==
  UiResult(events \o <<"res.json">>, 500, ErrorBody(msg), held, click, ran)

\* server.js, lines 462-467: try { if (ctx) await ctx.close(); } catch {}
\* try { if (browser) await browser.close(); } catch {}  res.status(500)
catchS2(events, held, msg, click, ran) ==
  UiResult(events \o (IF Held(held, "ctx") THEN <<"ctx.close">> ELSE <<>>)
             \o (IF Held(held, "browser") THEN <<"browser.close">> ELSE <<>>)
             \o <<"res.json">>,
           500, ErrorBody(msg), held, click, ran)

candidatesS2HintLast(buttonText) ==
  DEFAULT_BUTTON_CANDIDATES
    \o <<RegExp(IF buttonText # "" THEN buttonText ELSE "Deslogar", "i")>>

\* server.js, lines 361 and 409: buttonText || "Deslogar" leads the candidates
candidatesS2(buttonText) ==
  <<RegExp(IF buttonText # "" THEN buttonText ELSE "Deslogar", "i")>>
    \o DEFAULT_BUTTON_CANDIDATES

\* server.js, lines 369-467, after the launch was called
uiS2(env) ==
  LET acq == acquire(acquireSteps, env.fail, <<>>, <<>>)
  IN  IF acq.failed # "" THEN catchS2(acq.events, acq.held, acq.failed, NoClick, FALSE)
      ELSE IF env.buttonText # "" /\ ~ValidPattern(env.buttonText)
      THEN catchS2(Append(acq.events, "new RegExp"), acq.held, "new RegExp", NoClick, FALSE)
      ELSE LET cr == clickFirstMatch("s2", env.page, candidatesS2(env.buttonText),
                                     env.selector)
               e1 == Append(acq.events, "clickFirstMatch")
               e2 == e1 \o (IF cr.clicked THEN <<"postClickWait">> ELSE <<>>)
                        \o (IF env.stays THEN <<"forceLoginNav">> ELSE <<>>)
                        \o <<"page.title", "ctx.close", "browser.close", "res.json">>
           IN  IF cr.threw # "" THEN catchS2(e1, acq.held, cr.threw, cr, TRUE)
               ELSE UiResult(e2, 200, ClickBody("ui", cr), acq.held, cr, TRUE)

ui(revision, env) == IF revision = "s2" THEN uiS2(env) ELSE uiLegacy(revision, env)

\* ------------------------------------------------------------ the inputs
\* Target URLs
UrlId == <<"https://", "sendflow.pro/logout/", "abc123">>
UrlIdPadded == <<" ", "https://", "sendflow.pro/logout/", "abc123", " ">>
UrlPlain == <<"HTTP://", "example.com", "/bye">>
UrlFtp == <<"ftp://", "example.com", "/bye">>
UrlEmpty == <<>>

\* Authorization headers: none, the token as a bearer, the bare token, another
Headers == { <<>>, <<"Bearer ", SecretToken>>, <<SecretToken>>, <<"Bearer ", "wrong">> }

Request(hdr, url, urlUpper, qurl) == [hdr |-> hdr, url |-> url, URL |-> urlUpper, qurl |-> qurl]

NoRequest == Request(<<>>, Undefined, Undefined, Undefined)

BodyUrls ==
  { Undefined, Number42, Str(UrlEmpty), Str(UrlFtp), Str(UrlId), Str(UrlIdPadded),
    ArrayOf(Str(UrlId)), ArrayOf(Undefined) }

ReqPool ==
  { Request(h, Str(UrlId), Undefined, Undefined) : h \in Headers }
    \cup { Request(<<"Bearer ", SecretToken>>, u, Undefined, Undefined) : u \in BodyUrls }
    \cup { Request(<<"Bearer ", SecretToken>>, Undefined, Str(UrlId), Undefined),
           Request(<<"Bearer ", SecretToken>>, Undefined, Undefined, Str(UrlId)),
           Request(<<>>, Str(UrlFtp), Undefined, Undefined),
           Request(<<"Bearer ", "wrong">>, Undefined, Undefined, Undefined) }

\* Pages
Page(count, click, bad) == [count |-> count, click |-> click, bad |-> bad]

Sel == "#logout"
Hint == "Sair"

AllLocs ==
  { SelectorLoc(Sel), <<"role+text", "sair">>, <<"role+text", "logout">>,
    <<"text", "logout">>, <<"xpath:button", "logout">>, <<"xpath:a", "logout">>,
    FirstVisibleButtonLoc }

PageEmpty == Page({}, {}, {})
PageSelector == Page({SelectorLoc(Sel)}, {SelectorLoc(Sel)}, {})
PageAll == Page(AllLocs, AllLocs, {})
PageSelectorStuck == Page(AllLocs, AllLocs \ {SelectorLoc(Sel)}, {})
PageHintAndDefault ==
  Page({<<"role+text", "sair">>, <<"role+text", "logout">>},
       {<<"role+text", "sair">>, <<"role+text", "logout">>}, {})
PageRoleStuck ==
  Page({<<"role+text", "logout">>, <<"text", "logout">>, <<"xpath:button", "logout">>,
        FirstVisibleButtonLoc},
       {<<"text", "logout">>, <<"xpath:button", "logout">>, FirstVisibleButtonLoc}, {})
PageLinkOnly == Page({<<"xpath:a", "logout">>}, {<<"xpath:a", "logout">>}, {})
PageButtonOnly == Page({FirstVisibleButtonLoc}, {FirstVisibleButtonLoc}, {})
PageButtonStuck == Page({FirstVisibleButtonLoc}, {}, {})
PageNothingClickable == Page(AllLocs, {}, {})
PageBadSelector ==
  Page({<<"role+text", "logout">>}, {<<"role+text", "logout">>}, {SelectorLoc(Sel)})

\* the hint matches as free text only, a default pattern names a button
PageHintTextDefaultRole ==
  Page({<<"text", "sair">>, <<"role+text", "logout">>},
       {<<"text", "sair">>, <<"role+text", "logout">>}, {})

PagePool ==
  { PageEmpty, PageSelector, PageAll, PageSelectorStuck, PageHintAndDefault,
    PageRoleStuck, PageLinkOnly, PageButtonOnly, PageButtonStuck,
    PageNothingClickable, PageBadSelector, PageHintTextDefaultRole }

NoEnv == Env("", PageEmpty, "", "", FALSE, FALSE, FALSE)

EnvPool ==
  { Env(f, PageEmpty, "", "", FALSE, FALSE, FALSE) :
      f \in {"chromium.launch", "browser.newContext", "ctx.route", "ctx.newPage",
             "page.goto"} }
    \cup { Env("", pg, sel, bt, FALSE, FALSE, FALSE) :
             pg \in PagePool, sel \in {"", Sel}, bt \in {"", Hint} }
    \cup { Env("", PageEmpty, "", "(", FALSE, FALSE, FALSE) }
    \cup { Env("", pg, Sel, "", c, b, FALSE) :
             pg \in {PageEmpty, PageSelector}, c \in BOOLEAN, b \in BOOLEAN }
    \cup { Env("", pg, "", "", FALSE, FALSE, TRUE) : pg \in {PageEmpty, PageHintAndDefault} }

\* The browser stage of every revision under every environment
UiTable == [rv \in Revs |-> [e \in EnvPool |-> ui(rv, e)]]

\* What the clients send and what the browser can do, in three workloads
Authorized(u) == Request(<<"Bearer ", SecretToken>>, Str(u), Undefined, Undefined)

EnvOk == Env("", PageAll, "", "", FALSE, FALSE, FALSE)
EnvGotoFails == Env("page.goto", PageEmpty, "", "", FALSE, FALSE, FALSE)

\* every kind of request, against every revision
LoadRequests == [name |-> "requests", revs |-> Revs]

\* repeated valid requests against the revision with the cache and the fast path
LoadRepeats == [name |-> "repeats", revs |-> {"s2"}]

\* one valid request at a time against every page and browser failure
LoadPages == [name |-> "pages", revs |-> Revs]

\* repeated valid requests whose full operation succeeds, fails or is pending
LoadOutcomes == [name |-> "outcomes", revs |-> {"s2"}]

Reqs(l) ==
  CASE l.name = "requests" -> ReqPool
    [] l.name = "outcomes" -> { Authorized(UrlId), Authorized(UrlPlain) }
    [] l.name = "repeats" ->
         { Authorized(UrlId), Authorized(UrlIdPadded), Authorized(UrlPlain),
           Request(<<>>, Str(UrlId), Undefined, Undefined) }
    [] l.name = "pages" -> { Authorized(UrlId) }

Envs(l) == IF l.name = "pages" THEN EnvPool ELSE {EnvOk, EnvGotoFails}

\* ------------------------------------------------------------- the state
VARIABLES
  rev,        \* the revision the process runs
  expected,   \* process.env.AUTH_TOKEN
  load,       \* the requests the clients send and what the browser can do
  clock,      \* Date.now()
  seen,       \* the idempotency cache (server.js, line 196)
  inflight,   \* per request slot: where the request waits (pc) and its URL
  hist,       \* per URL, when a request for it last arrived (lookup), when
              \* one last went on to the full operation (full) and when,
              \* less than a window ago, one was last answered ok:true by
              \* the backend call or the browser stage (ok)
  out         \* what the latest run of a handler did and answered

vars == <<rev, expected, load, clock, seen, inflight, hist, out>>

Slots == 1..MaxReq

EmptyMap == [k \in {} |-> 0]

Idle == [pc |-> "idle", url |-> Null]

\* Milliseconds since the time m holds for k; -1 when it holds none.
Since(m, k, now) == IF k \in DOMAIN m THEN now - m[k] ELSE -1

\* sinceLookup and sinceFull: how long before this request the last request
\* for the same URL arrived, and the last one that went on to the full
\* operation (-1: none did); wrote: whether the run changed the cache
Out(kind, req, url, sinceLookup, sinceFull, outcome, env, events, status, body, next, held, click, ran, wrote) ==
  [kind |-> kind, req |-> req, url |-> url, sinceLookup |-> sinceLookup,
   sinceFull |-> sinceFull, outcome |-> outcome, env |-> env, events |-> events,
   status |-> status, body |-> body, next |-> next, held |-> held, click |-> click,
   ran |-> ran, wrote |-> wrote]

InitWith(l) ==
  /\ load = l
  /\ rev \in l.revs
  /\ expected \in {NoToken, SecretToken}
  /\ clock = TickMs
  /\ seen = EmptyMap
  /\ inflight = [r \in Slots |-> Idle]
  /\ hist = [lookup |-> EmptyMap, full |-> EmptyMap, ok |-> EmptyMap]
  /\ out = Out("init", NoRequest, Null, -1, -1, -1, NoEnv, <<>>, 0, EmptyBody, "done",
               <<>>, NoClick, FALSE, FALSE)

Init == InitWith(LoadRequests)

InitRepeats == InitWith(LoadRepeats)

InitPages == InitWith(LoadPages)

InitOutcomes == InitWith(LoadOutcomes)

\* hist.ok is kept under the workload that asks how earlier requests ended.
TracksOk == load.name = "outcomes"

InEvents(events, e) == \E i \in 1..Len(events) : events[i] = e

\* A request arrives and its handler runs to its first await.  In the
\* revision with the cache, hist notes each request that was neither refused
\* (401) nor rejected (400), and whether it went on to the full operation.
\* Handler runs have no identity in the program: a new one takes the first
\* free slot.
Post(r) ==
  /\ inflight[r].pc = "idle"
  /\ \A j \in Slots : j < r => inflight[j].pc # "idle"
  /\ \E req \in Reqs(load) :
       LET h == post(rev, expected, req, clock, seen)
           noted == rev = "s2" /\ h.status \notin {400, 401}
           full == noted /\ h.next # "done"
       IN  /\ seen' = h.seen
           /\ inflight' = [inflight EXCEPT ![r] =
                             IF h.next = "done" THEN Idle ELSE [pc |-> h.next, url |-> h.url]]
           /\ hist' = [lookup |-> IF noted THEN MapSet(hist.lookup, h.url, clock)
                                  ELSE hist.lookup,
                       full |-> IF full THEN MapSet(hist.full, h.url, clock)
                                ELSE hist.full,
                       ok |-> hist.ok]
           /\ out' = Out("post", req, h.url,
                         IF noted THEN Since(hist.lookup, h.url, clock) ELSE -1,
                         IF noted THEN Since(hist.full, h.url, clock) ELSE -1,
                         -1, NoEnv, h.events, h.status, h.body, h.next, <<>>, NoClick, FALSE,
                         h.seen # seen)
  /\ UNCHANGED <<rev, expected, load, clock>>

\* The backend call of a waiting request settles and its handler runs on to
\* the response or to the browser launch.  hist notes an ok:true answer.
FetchDone(r) ==
  /\ inflight[r].pc = "fetch"
  /\ \E outcome \in ApiOutcomes :
       LET h == fetchDone(inflight[r].url, outcome, seen)
       IN  /\ inflight' = [inflight EXCEPT ![r] =
                             IF h.next = "done" THEN Idle ELSE [pc |-> h.next, url |-> h.url]]
           /\ hist' = IF TracksOk /\ h.status = 200 /\ h.body.ok
                      THEN [hist EXCEPT !.ok = MapSet(hist.ok, h.url, clock)]
                      ELSE hist
           /\ out' = Out("api", NoRequest, h.url, -1, -1, outcome, NoEnv, h.events,
                         h.status, h.body, h.next, <<>>, NoClick, FALSE, FALSE)
  /\ UNCHANGED <<rev, expected, load, clock, seen>>

\* The browser stage of a waiting request runs from the launch to the response.
UiDone(r) ==
  /\ inflight[r].pc = "ui"
  /\ \E env \in Envs(load) :
       LET u == UiTable[rev][env]
       IN  /\ inflight' = [inflight EXCEPT ![r] = Idle]
           /\ hist' = IF TracksOk /\ u.status = 200 /\ u.body.ok
                      THEN [hist EXCEPT !.ok = MapSet(hist.ok, inflight[r].url, clock)]
                      ELSE hist
           /\ out' = Out("ui", NoRequest, inflight[r].url, -1, -1, -1, env, u.events,
                         u.status, u.body, "done", u.held, u.click, u.ran, FALSE)
  /\ UNCHANGED <<rev, expected, load, clock, seen>>

\* Time passes.  hist forgets the ok:true answers a window old.
Tick ==
  /\ clock < MaxTicks * TickMs
  /\ clock' = clock + TickMs
  /\ hist' = [hist EXCEPT !.ok =
                [u \in {v \in DOMAIN hist.ok : clock' - hist.ok[v] < IDEMP_TTL_MS}
                   |-> hist.ok[u]]]
  /\ UNCHANGED <<rev, expected, load, seen, inflight, out>>

Next == \E r \in Slots : Post(r) \/ FetchDone(r) \/ UiDone(r) \/ Tick

\* every kind of request
Spec == Init /\ [][Next]_vars

\* repeated requests for the same URLs over time
SpecRepeats == InitRepeats /\ [][Next]_vars

\* the browser stage against every page
SpecPages == InitPages /\ [][Next]_vars

\* repeated requests and how the earlier ones ended
SpecOutcomes == InitOutcomes /\ [][Next]_vars

\* ================================================================ claims
\* What the claims call a request's url: the candidate the validator
\* extracts.  It is invalid when absent, not a string, or, trimmed, without
\* an http:// or https:// prefix (in either case).
StartsWithHttp(u) == Len(u) > 0 /\ LowerTok(u[1]) \in {"http://", "https://"}

InvalidUrl(req) ==
  LET c == CandidateUrl(req)
  IN  c.type # "string" \/ ~StartsWithHttp(Trim(c.val))

Launched(events) == InEvents(events, "chromium.launch")

\* C1: every POST /logout request whose url is absent, not a string or not
\* an http(s) URL is answered 400 with ok:false, and no browser is launched
\* for it.  (Read with C2: of the requests the authenticator lets through.)
C1_InvalidUrlRejected ==
  (out.kind = "post" /\ InvalidUrl(out.req) /\ out.status # 401)
    => /\ out.status = 400
       /\ ~out.body.ok
       /\ ~Launched(out.events)

\* The credential of a request is bad when its Authorization header is
\* missing or, a leading "Bearer " stripped, differs from the token.
BadCredential(token, hdr) ==
  \/ hdr = <<>>
  \/ (IF hdr[1] = "Bearer " THEN SubSeq(hdr, 2, Len(hdr)) ELSE hdr) # <<token>>

\* C2: in the revisions with the authenticator (both of server.js), when an
\* AUTH_TOKEN is configured every request with a bad credential is answered
\* 401 {ok:false, error:"Unauthorized"}, and checkAuth is the only call its
\* handler made: no URL validation, no cache lookup (the cache is as it was),
\* no backend call, no browser launch.
C2_UnauthorizedFirst ==
  (out.kind = "post" /\ rev \in {"s1", "s2"} /\ expected # NoToken
     /\ BadCredential(expected, out.req.hdr))
    => /\ out.status = 401
       /\ out.body = ErrorBody("Unauthorized")
       /\ out.events = <<"checkAuth", "res.json">>
       /\ out.next = "done"
       /\ ~out.wrote

\* C2's case: a bad credential on a valid URL, refused
C2_Witness ==
  /\ out.kind = "post" /\ rev = "s2" /\ expected = SecretToken
  /\ out.req.hdr = <<"Bearer ", "wrong">>
  /\ ~InvalidUrl(out.req)
  /\ out.status = 401

\* A close call that releases a resource: closing the browser closes its
\* contexts, closing a context closes its pages.
Closers(res) ==
  CASE res = "browser" -> {"browser.close"}
    [] res = "ctx" -> {"ctx.close", "browser.close"}
    [] res = "page" -> {"ctx.close", "browser.close"}

ReleasedBeforeResponse(events, res) ==
  \E i, j \in 1..Len(events) :
    i < j /\ events[i] \in Closers(res) /\ events[j] = "res.json"

\* C3: whenever the browser stage has answered, on whichever path, a close
\* was attempted, before the response, for each browser, context and page
\* the request had acquired.
C3_ReleasedOnEveryExit ==
  (out.kind = "ui" /\ out.status # 0)
    => \A k \in 1..Len(out.held) : ReleasedBeforeResponse(out.events, out.held[k])

\* C3's case: the navigation failed with all three resources held
C3_Witness ==
  /\ out.kind = "ui" /\ out.env.fail = "page.goto" /\ out.status = 500
  /\ out.held = <<"browser", "ctx", "page">>

\* The clicker ran and no locator it probed matched an element.
NothingFound ==
  /\ out.kind = "ui" /\ out.ran
  /\ \A i \in 1..Len(out.click.probed) :
       out.click.probed[i] \notin (out.env.page.count \cup out.env.page.bad)

\* C4: when the navigation succeeded and no strategy of the clicker found
\* an element, the clicker returns {clicked:false} without throwing (every
\* revision) and the request is answered 200 with ok:true, clicked:false and
\* null clickHow and clickValue (the handler of server.js, lines 303-468).
C4_NoButtonIsNoError ==
  NothingFound
    => /\ ~out.click.clicked /\ out.click.threw = ""
       /\ rev = "s2" =>
            /\ out.status = 200
            /\ out.body.ok /\ ~out.body.clicked
            /\ out.body.clickHow = "null" /\ out.body.clickValue = "null"

\* C4's case: a page without any button, probed with a selector
C4_Witness ==
  /\ NothingFound /\ rev = "s2"
  /\ out.env.page = PageEmpty /\ out.env.selector = Sel
  /\ Len(out.click.probed) > 1
  /\ out.status = 200 /\ ~out.body.clicked

\* The request carries a selector that matches an element of the page.
SelectorMatches ==
  /\ out.kind = "ui" /\ out.ran
  /\ out.env.selector # ""
  /\ SelectorLoc(out.env.selector) \in out.env.page.count
  /\ SelectorLoc(out.env.selector) \notin out.env.page.bad

\* C5: when the request's selector matches an element, no other strategy
\* clicks, and a response that reports a click strategy reports "selector"
\* with the selector as its value, whatever else the page holds.
C5_SelectorWins ==
  SelectorMatches
    => /\ \A i \in 1..Len(out.click.tried) :
            out.click.tried[i] = SelectorLoc(out.env.selector)
       /\ out.status = 200 =>
            /\ out.body.clicked
            /\ out.body.clickHow = "selector"
            /\ out.body.clickValue = out.env.selector

\* C5's case: a page on which every strategy would match
C5_Witness ==
  /\ SelectorMatches /\ out.env.page = PageAll
  /\ out.status = 200 /\ out.body.clickHow = "selector"

\* C6: a failed click on the matching selector does not abort the request:
\* the clicker goes on to the remaining strategies and the request does not
\* end in 500.
C6_SelectorClickFailureFallsThrough ==
  (SelectorMatches /\ SelectorLoc(out.env.selector) \notin out.env.page.click)
    => /\ out.click.threw = ""
       /\ Len(out.click.probed) > 1
       /\ out.status # 500

\* The URL carries an identifier: sendflow.pro/logout/ and a path segment.
HasId(u) ==
  \E i \in 1..(Len(u) - 1) :
    LowerTok(u[i]) = "sendflow.pro/logout/" /\ u[i + 1] \in {"abc123", "example.com"}

\* The run let the request go on to the full operation.
WentOn == out.status = 0 /\ out.next \in {"fetch", "ui"}

\* C7: a request for a URL that arrives less than the window after the last
\* request for the same URL (each authorized and valid) is answered with the
\* canned {ok:true, skipped:true} and makes neither the backend call nor a
\* browser launch.
C7_SecondWithinWindowSkipped ==
  (out.kind = "post" /\ out.sinceLookup >= 0 /\ out.sinceLookup < IDEMP_TTL_MS)
    => /\ out.status = 200
       /\ out.body = SkippedBody
       /\ out.next = "done"
       /\ ~InEvents(out.events, "fetch")
       /\ ~Launched(out.events)

\* C7's case: the same URL again, half a window later and differently padded
C7_Witness ==
  /\ out.kind = "post" /\ out.sinceLookup = TickMs
  /\ out.req = Authorized(UrlIdPadded)
  /\ out.body.skipped

\* C8 as claimed: once the window has elapsed since the request that last
\* performed the full operation for a URL, the next request for it performs
\* the full operation, whatever skipped duplicates arrived in between.
C8_FullAfterWindowSinceFull ==
  (out.kind = "post" /\ out.sinceFull >= IDEMP_TTL_MS) => WentOn

\* C8, amended: once the window has elapsed since the last request for a URL
\* that reached the lookup (skipped or not), the next request for it performs
\* the full operation.
C8_FullAfterWindowSinceLookup ==
  (out.kind = "post" /\ out.sinceLookup >= IDEMP_TTL_MS)
    => WentOn /\ ~out.body.skipped

\* C8's case: exactly one window after the last request for the URL
C8_Witness ==
  /\ out.kind = "post" /\ out.sinceLookup = IDEMP_TTL_MS
  /\ WentOn

\* C9: the fast path answers (200, ok:true, via:"api", no browser launch)
\* exactly when the URL carried an identifier and the one backend call
\* returned a status from 200 to 399; the backend is called exactly for the
\* URLs with an identifier, and other statuses never short-circuit.
C9_FastPathExactly ==
  /\ (out.kind = "post" /\ WentOn) => (out.next = "fetch" <=> HasId(out.url))
  /\ out.body.via = "api" => (out.kind = "api" /\ HasId(out.url))
  /\ out.kind = "api" =>
       /\ (out.outcome >= 200 /\ out.outcome < 400)
            <=> (out.status = 200 /\ out.body = ApiBody(out.outcome))
       /\ out.status # 0 => (out.next = "done" /\ ~Launched(out.events))

\* C9's case: the backend answered 399
C9_Witness ==
  /\ out.kind = "api" /\ out.outcome = 399
  /\ out.status = 200 /\ out.body.via = "api"

\* C10: a request whose URL carries no identifier, whose backend call threw
\* or whose backend call returned a status outside 200..399 goes on to the
\* browser launch; the fast path never answers with an error.
C10_FastPathFallsThrough ==
  /\ (out.kind = "post" /\ WentOn /\ ~HasId(out.url))
       => (out.next = "ui" /\ Launched(out.events))
  /\ (out.kind = "api" /\ ~(out.outcome >= 200 /\ out.outcome < 400))
       => (out.status = 0 /\ out.next = "ui" /\ Launched(out.events))
  /\ out.kind = "api" => out.status \in {0, 200}

\* C10's case: the backend call threw
C10_Witness ==
  /\ out.kind = "api" /\ out.outcome = 0
  /\ out.next = "ui" /\ Launched(out.events)

\* C11: a request whose navigation, click and read-back all succeeded is
\* answered 200 ok:true whether or not ctx.close() or browser.close() rejects.
C11_CloseErrorsSuppressed ==
  (out.kind = "ui" /\ out.ran /\ out.click.threw = "")
    => (out.status = 200 /\ out.body.ok = TRUE)

\* The browser stage always comes to its response: chromium.launch (30 s by
\* default), page.goto (15 s), each click (timeoutMs) and each post-click
\* wait (6-8 s) carry a timeout.  The backend call of lines 331-334 is given
\* no timeout and no abort signal, so nothing in the program makes it settle:
\* FetchDone happens when the remote side answers, and is not fair.
SpecLive == InitRepeats /\ [][Next]_vars /\ \A r \in Slots : WF_vars(UiDone(r))

\* C12: every request that was received is eventually answered, even when
\* the remote side never answers.
C12_EveryRequestAnswered ==
  \A r \in Slots : (inflight[r].pc # "idle") ~> (inflight[r].pc = "idle")

\* The part of C12 that the timeouts of the browser stage give: a request
\* that reached the browser launch is eventually answered.
C12_BrowserStageAnswered ==
  \A r \in Slots : (inflight[r].pc = "ui") ~> (inflight[r].pc = "idle")

\* C13: when no AUTH_TOKEN is configured no request is answered 401,
\* whatever its Authorization header: every handler run goes past checkAuth.
C13_NoTokenNeverRefused ==
  (expected = NoToken /\ out.kind = "post")
    => /\ out.status # 401
       /\ out.body.error # "Unauthorized"
       /\ out.events # <<"checkAuth", "res.json">>

\* C13's case: a wrong bearer token on a valid URL, let through
C13_Witness ==
  /\ expected = NoToken /\ rev = "s2" /\ out.kind = "post"
  /\ out.req.hdr = <<"Bearer ", "wrong">>
  /\ WentOn

\* The order C14 claims, restricted to the strategies a revision has: the
\* selector, role+text per candidate, free text per candidate, XPath per
\* candidate (button query, then link query), the first visible button.
Strategies(revision) ==
  CASE revision = "p0" -> {"selector", "role+text", "xpath"}
    [] revision = "s1" -> {"selector", "role+text", "text", "xpath"}
    [] revision = "s2" -> {"selector", "role+text", "text", "fallback:first-visible-button"}

Entry(loc, how, value) == [loc |-> loc, how |-> how, value |-> value]

ClaimedOrder(strategies, candidates, sel) ==
  (IF "selector" \in strategies /\ sel # ""
   THEN <<Entry(<<"selector", sel>>, "selector", sel)>> ELSE <<>>)
  \o (IF "role+text" \in strategies
      THEN [i \in 1..Len(candidates) |->
              Entry(<<"role+text", LowerTok(candidates[i].source)>>, "role+text",
                    RxToString(candidates[i]))]
      ELSE <<>>)
  \o (IF "text" \in strategies
      THEN [i \in 1..Len(candidates) |->
              Entry(<<"text", LowerTok(candidates[i].source)>>, "text",
                    RxToString(candidates[i]))]
      ELSE <<>>)
  \o (IF "xpath" \in strategies
      THEN [i \in 1..(2 * Len(candidates)) |->
              Entry(<<IF i % 2 = 1 THEN "xpath:button" ELSE "xpath:a",
                      LowerTok(candidates[(i + 1) \div 2].source)>>,
                    "xpath", candidates[(i + 1) \div 2].source)]
      ELSE <<>>)
  \o (IF "fallback:first-visible-button" \in strategies
      THEN <<Entry(<<"button:visible", "">>, "fallback:first-visible-button", "")>>
      ELSE <<>>)

\* The candidate list the handler of a revision hands to the clicker.
CandidatesOf(revision, buttonText) ==
  CASE revision = "p0" -> candidatesLegacy(DEFAULT_BUTTON_CANDIDATES_P0, buttonText)
    [] revision = "s1" -> candidatesLegacy(DEFAULT_BUTTON_CANDIDATES, buttonText)
    [] revision = "s2" -> candidatesS2(buttonText)

\* The clicker probed the claimed order from its start up to the first entry
\* that matches an element and whose click succeeds, returned that entry,
\* and clicked successfully at most once; with no such entry it probed them
\* all and returned clicked:false.
OrderedFirstSuccess ==
  LET order == ClaimedOrder(Strategies(rev), CandidatesOf(rev, out.env.buttonText),
                            out.env.selector)
      pg == out.env.page
      hits == {i \in 1..Len(order) : order[i].loc \in (pg.count \cap pg.click) \ pg.bad}
      n == IF hits = {} THEN Len(order)
           ELSE CHOOSE i \in hits : \A j \in hits : i <= j
  IN  /\ out.click.probed = [i \in 1..n |-> order[i].loc]
      /\ hits # {} => /\ out.click.clicked
                      /\ out.click.how = order[n].how
                      /\ out.click.value = order[n].value
      /\ hits = {} => ~out.click.clicked
      /\ Cardinality({i \in 1..Len(out.click.tried) : out.click.tried[i] \in pg.click}) <= 1

\* C14: clickFirstMatch tries its strategies strictly in the order selector,
\* role+text, free text, XPath (button before link), first visible button,
\* each candidate in list order; it returns the first pair in that order that
\* matches an element and clicks successfully and attempts nothing after it.
C14_FirstSuccessfulInOrder ==
  (out.kind = "ui" /\ out.ran) => OrderedFirstSuccess

\* What holds of C14 in every revision: the order is kept and the first
\* success returned whenever the selector stage did not throw.
C14_InOrderUnlessSelectorThrows ==
  (out.kind = "ui" /\ out.ran /\ out.click.threw = "") => OrderedFirstSuccess

\* The locators under which a strategy looks for a pattern.
StrategyLocs(how, rx) ==
  CASE how = "role+text" -> {<<"role+text", LowerTok(rx.source)>>}
    [] how = "text" -> {<<"text", LowerTok(rx.source)>>}
    [] how = "xpath" -> {<<"xpath:button", LowerTok(rx.source)>>,
                         <<"xpath:a", LowerTok(rx.source)>>}
    [] OTHER -> {}

PatternLocs(strategies, rx) ==
  UNION {StrategyLocs(how, rx) : how \in strategies}

Clickable(pg, locs) == \E l \in locs : l \in (pg.count \cap pg.click) \ pg.bad

\* How a response names the hint: the pattern (role+text, text) or its text
HintValues(buttonText) == {RxToString(RegExp(buttonText, "i")), buttonText}

\* The browser stage ran the clicker for a request with a buttonText hint.
HintSupplied == out.kind = "ui" /\ out.ran /\ out.env.buttonText # ""

C16_StabilizerOnlyAfterClick ==
  (out.kind = "ui" /\ out.ran /\ out.click.threw = "" /\ ~out.click.clicked)
    => /\ ~InEvents(out.events, "postClickWait")
       /\ ~InEvents(out.events, "forceLoginNav")

\* What holds of C16 in every revision: the post-click wait follows a click.
C16_WaitOnlyAfterClick ==
  (out.kind = "ui" /\ InEvents(out.events, "postClickWait")) => out.click.clicked

\* C17: a request answered 401 or 400 leaves the cache as it was; every
\* entry of the cache was recorded by a request that was neither, and a
\* request is skipped only after such a request for its URL within the window.
C17_RejectedLeavesCacheAlone ==
  /\ (out.kind = "post" /\ out.status \in {400, 401}) => ~out.wrote
  /\ \A u \in DOMAIN seen : u \in DOMAIN hist.lookup /\ seen[u] = hist.lookup[u]
  /\ (out.kind = "post" /\ out.body.skipped)
       => (out.sinceLookup >= 0 /\ out.sinceLookup < IDEMP_TTL_MS)

\* C17's case: a request for a URL refused 401, the cache holding nothing
\* for that URL afterwards
C17_Witness ==
  /\ rev = "s2" /\ out.kind = "post" /\ out.status = 401
  /\ out.req.url = Str(UrlId)
  /\ UrlId \notin DOMAIN seen

\* C18: under every interleaving of the handlers, a request goes on to the
\* full operation (backend call or browser) only if no request for the same
\* URL went on to it less than the window before, whether or not that
\* earlier request is still in flight.
C18_NoTwoFullWithinWindow ==
  (out.kind = "post" /\ WentOn)
    => ~(out.sinceFull >= 0 /\ out.sinceFull < IDEMP_TTL_MS)

\* C18's case: a request skipped while the first request for its URL, which
\* arrived at the same instant, still waits for the backend
C18_Witness ==
  /\ out.kind = "post" /\ out.body.skipped /\ out.sinceFull = 0
  /\ \E r \in Slots : inflight[r].pc = "fetch" /\ inflight[r].url = out.url

\* A step in which a handler called seenRecently(out'.url) at time clock.
LookupStep ==
  /\ out'.kind = "post" /\ InEvents(out'.events, "seenRecently")
  /\ clock' = clock

\* C19: after every call seenRecently(u) at time now the cache holds no
\* entry older than the window and maps u to now, and the call returned true
\* (the request was skipped) exactly when, before the call, the cache held
\* an entry for u less than the window old.
C19_SeenRecentlyPostcondition ==
  [][LookupStep =>
       /\ \A k \in DOMAIN seen' : clock - seen'[k] <= IDEMP_TTL_MS
       /\ out'.url \in DOMAIN seen' /\ seen'[out'.url] = clock
       /\ out'.body.skipped
            <=> (out'.url \in DOMAIN seen /\ clock - seen[out'.url] < IDEMP_TTL_MS)]_vars

\* C19's case: a lookup after which an entry recorded earlier is gone
C19_Witness ==
  /\ out.kind = "post" /\ InEvents(out.events, "seenRecently")
  /\ out.url \in DOMAIN seen /\ seen[out.url] = clock
  /\ \E u \in DOMAIN hist.lookup : u \notin DOMAIN seen

\* C20: when chromium.launch or page.goto rejects, the request is answered
\* 500 with ok:false and the clicker is never called: no locator is probed
\* and nothing is clicked.
C20_LaunchOrNavigationFailureIsTerminal ==
  (out.kind = "ui" /\ out.env.fail \in {"chromium.launch", "page.goto"})
    => /\ out.status = 500
       /\ ~out.body.ok
       /\ out.body.error = out.env.fail
       /\ ~out.ran
       /\ ~InEvents(out.events, "clickFirstMatch")
       /\ out.click.probed = <<>> /\ out.click.tried = <<>>

\* C20's case: the navigation timed out
C20_Witness ==
  /\ out.kind = "ui" /\ out.env.fail = "page.goto"
  /\ out.status = 500 /\ InEvents(out.events, "page.goto")

\* C21: a request is answered with the canned {ok:true, skipped:true} only
\* if a request for the same URL was answered ok:true by the backend call or
\* by the browser stage less than the window before; a URL whose earlier
\* requests all ended in 500 or are still in flight is never skipped.
C21_SkippedOnlyAfterSuccess ==
  (out.kind = "post" /\ out.body.skipped)
    => /\ out.url \in DOMAIN hist.ok
       /\ clock - hist.ok[out.url] < IDEMP_TTL_MS

\* What holds of C21: a request is skipped only if a request for the same
\* URL went on to the full operation before, whatever became of it.
C21_SkippedOnlyAfterAttempt ==
  (out.kind = "post" /\ out.body.skipped) => out.sinceFull >= 0

====
